---- MODULE Spec2Model ----
(***************************************************************************)
(* Model of scripts/gradio_test.py: the model registry                     *)
(* (get_available_models), the Ollama query path (query_ollama), the lazy  *)
(* model cache (get_model) and the two request handlers (analyze_text,     *)
(* analyze_batch) with the CSV export.                                     *)
(*                                                                         *)
(* Python strings are sequences of one-character strings, so that strip(), *)
(* split(), lower() and the `in` substring test are computed rather than   *)
(* assumed.  Scores are integers in units of 1/10000; rounded scores are   *)
(* integers in units of 1/1000.  The third-party engines (transformers     *)
(* pipelines, the ollama process, the file system, the clock) are inputs   *)
(* of the actions, drawn from small families.                              *)
(***************************************************************************)
EXTENDS Integers, Sequences, FiniteSets, TLC

VARIABLES
    models_dir,     \* what the file system holds at MODELS_DIR
    loaded_models,  \* the module-level cache dict: descriptor name -> pipeline
    pipeline_loads, \* history: name -> number of pipeline(...) constructions
    now,            \* the clock time.time() reads, in milliseconds
    data_files,     \* the CSV files written so far: timestamp of the name -> content
    ret             \* the last handler call: its arguments and what it returned

vars == <<models_dir, loaded_models, pipeline_loads, now, data_files, ret>>

----------------------------------------------------------------------------
(* Python str operations *)

\* A sequence given as a function, as the list of its values
List(f) == SubSeq(f, 1, Len(f))

Str(s) == List([i \in 1..Len(s) |-> SubSeq(s, i, i)])

MinOf(S) == CHOOSE x \in S : \A y \in S : x <= y
MaxOf(S) == CHOOSE x \in S : \A y \in S : x >= y

IsSpace(c) == c \in {" ", "\t", "\n", "\r", "\f"}

UPPER == Str("ABCDEFGHIJKLMNOPQRSTUVWXYZ")
LOWER == Str("abcdefghijklmnopqrstuvwxyz")

\* str.lower(), on the ASCII letters
UpperCase == {UPPER[i] : i \in DOMAIN UPPER}

LowerChar(c) ==
    IF c \in UpperCase
    THEN LOWER[CHOOSE i \in DOMAIN UPPER : UPPER[i] = c]
    ELSE c

Lower(s) == List([i \in DOMAIN s |-> LowerChar(s[i])])

\* str.strip()
Strip(s) ==
    LET keep == {i \in DOMAIN s : ~IsSpace(s[i])}
    IN  IF keep = {} THEN <<>> ELSE SubSeq(s, MinOf(keep), MaxOf(keep))

\* `needle in hay`
Contains(hay, needle) ==
    \E i \in 0..(Len(hay) - Len(needle)) :
        SubSeq(hay, i + 1, i + Len(needle)) = needle

\* str.split() with no argument: the whitespace-delimited tokens
RECURSIVE SplitWs(_)
SplitWs(s) ==
    LET starts == {i \in DOMAIN s : ~IsSpace(s[i])}
    IN  IF starts = {} THEN <<>>
        ELSE LET b == MinOf(starts)
                 ends == {i \in b..Len(s) : IsSpace(s[i])}
                 e == IF ends = {} THEN Len(s) + 1 ELSE MinOf(ends)
             IN  <<SubSeq(s, b, e - 1)>> \o SplitWs(SubSeq(s, e, Len(s)))

\* str.split(sep) for a one-character separator
RECURSIVE SplitOn(_, _)
SplitOn(s, sep) ==
    LET at == {i \in DOMAIN s : s[i] = sep}
    IN  IF at = {} THEN <<s>>
        ELSE <<SubSeq(s, 1, MinOf(at) - 1)>>
                 \o SplitOn(SubSeq(s, MinOf(at) + 1, Len(s)), sep)

----------------------------------------------------------------------------
(* Insertion-ordered dicts: sequences of <<key, value>> with unique keys *)

Keys(d) == {d[i][1] : i \in DOMAIN d}

Get(d, k) == d[CHOOSE i \in DOMAIN d : d[i][1] = k][2]

\* d[k] = v
DictSet(d, k, v) ==
    IF k \in Keys(d)
    THEN List([i \in DOMAIN d |-> IF d[i][1] = k THEN <<k, v>> ELSE d[i]])
    ELSE Append(d, <<k, v>>)

\* dict(pairs): later pairs overwrite earlier ones with the same key
RECURSIVE DictOf(_)
DictOf(pairs) ==
    IF pairs = <<>> THEN <<>>
    ELSE LET p == pairs[Len(pairs)]
         IN  DictSet(DictOf(SubSeq(pairs, 1, Len(pairs) - 1)), p[1], p[2])

----------------------------------------------------------------------------
(* MODEL REGISTRY *)

MODELS_DIR == Str("models")

TEXT_CLASSIFICATION == "text-classification"
ZERO_SHOT == "zero-shot-classification"
OLLAMA_LLM == "ollama-llm"

QWEN_NAME == Str("qwen2.5_agent (Ollama)")
INTENT_HF_NAME == Str("intent_agent (Hugging Face)")
LOGIC_HF_NAME == Str("logic_agent (Hugging Face)")

OllamaDescriptor ==
    [name |-> QWEN_NAME, path |-> Str("qwen2.5:7b-instruct"), type |-> OLLAMA_LLM]

FallbackModels ==
    << [name |-> INTENT_HF_NAME, path |-> Str("Falconsai/intent_classification"),
        type |-> TEXT_CLASSIFICATION],
       [name |-> LOGIC_HF_NAME, path |-> Str("facebook/bart-large-mnli"),
        type |-> ZERO_SHOT] >>

PATH_SEP == Str("/")

\* os.path.join(MODELS_DIR, folder)
JoinPath(dir, name) == dir \o PATH_SEP \o name

\* The substrings that mark a zero-shot model
KW_LOGIC == Str("logic")
KW_BART == Str("bart")
KW_DEBERTA == Str("deberta")
KW_MNLI == Str("mnli")
KW_FACEBOOK == Str("facebook")
KW_NLI == Str("nli")

\* A folder entry of the listing: [folder, is_dir, config], config being
\*   [state |-> "absent"]      no config.json in the folder
\*   [state |-> "unreadable"]  open() raises
\*   [state |-> "malformed"]   json.load raises
\*   [state |-> "array"]       valid JSON that is no object: config.get raises
\*   [state |-> "object", has_key, is_str, name_or_path]  a JSON object
\* The model type from the folder name and the config's "_name_or_path".
ModelType(folder, name_or_path) ==
    LET folder_lower == Lower(folder)
        nop == Lower(name_or_path)
    IN  IF \/ Contains(folder_lower, KW_LOGIC)
           \/ Contains(folder_lower, KW_BART)
           \/ Contains(folder_lower, KW_DEBERTA)
           \/ Contains(nop, KW_MNLI)
           \/ Contains(nop, KW_BART)
           \/ Contains(nop, KW_FACEBOOK)
           \/ Contains(nop, KW_NLI)
        THEN ZERO_SHOT
        ELSE TEXT_CLASSIFICATION

\* What reading one folder's config.json does: the exception it raises, or "".
ConfigError(config) ==
    CASE config.state = "unreadable" -> "PermissionError"
      [] config.state = "malformed" -> "JSONDecodeError"
      [] config.state = "array" -> "AttributeError"
      [] config.state = "object" /\ config.has_key /\ ~config.is_str -> "AttributeError"
      [] OTHER -> ""

\* config.get("_name_or_path", "")
NameOrPath(config) == IF config.has_key THEN config.name_or_path ELSE <<>>

\* The loop over os.listdir(MODELS_DIR): the descriptors appended so far, or
\* the exception that left the loop.
RECURSIVE ScanFolders(_, _)
ScanFolders(entries, models) ==
    IF entries = <<>> THEN [raised |-> "", models |-> models]
    ELSE LET e == Head(entries)
         IN  IF ~e.is_dir \/ e.config.state = "absent"
             THEN ScanFolders(Tail(entries), models)
             ELSE IF ConfigError(e.config) # ""
             THEN [raised |-> ConfigError(e.config), models |-> <<>>]
             ELSE ScanFolders(Tail(entries),
                    Append(models,
                           [name |-> e.folder,
                            path |-> JoinPath(MODELS_DIR, e.folder),
                            type |-> ModelType(e.folder, NameOrPath(e.config))]))

\* The fallback branch: taken when the list is empty at that point.
WithFallback(models) == IF models = <<>> THEN FallbackModels ELSE models

\* get_available_models(): [raised, models]. dir is [exists, is_dir, entries].
GetAvailableModels(dir) ==
    IF ~dir.exists THEN
        [raised |-> "", models |-> WithFallback(<<OllamaDescriptor>>)]
    ELSE IF ~dir.is_dir THEN
        [raised |-> "NotADirectoryError", models |-> <<>>]
    ELSE LET scan == ScanFolders(dir.entries, <<>>)
         IN  IF scan.raised # "" THEN scan
             ELSE [raised |-> "",
                   models |-> WithFallback(Append(scan.models, OllamaDescriptor))]

\* next((m for m in models if m["name"] == model_name), None)
HasModel(models, model_name) == \E i \in DOMAIN models : models[i].name = model_name
FindModel(models, model_name) ==
    models[MinOf({i \in DOMAIN models : models[i].name = model_name})]

----------------------------------------------------------------------------
(* OLLAMA QUERY PATH *)

ERROR_LABEL == Str("Error")
INDEX_ERROR == Str("list index out of range")

\* What subprocess.run(..., timeout=60) does, as seen by the caller:
\*   [kind |-> "completed", returncode, stdout, message]  the process ended
\*   [kind |-> "timeout", ...]   TimeoutExpired is raised
\*   [kind |-> "oserror", ...]   another exception is raised
\* message is str(e) of the exception raised.
Completed(returncode, stdout) ==
    [kind |-> "completed", returncode |-> returncode, stdout |-> stdout,
     message |-> <<>>]
TimedOut ==
    [kind |-> "timeout", returncode |-> 0, stdout |-> <<>>,
     message |-> Str("timed out after 60 seconds")]
RunRaised ==
    [kind |-> "oserror", returncode |-> 0, stdout |-> <<>>,
     message |-> Str("Cannot allocate memory")]

\* result.stdout.strip().split()[0] if result.stdout.strip() else ""
FirstToken(stdout) ==
    IF Strip(stdout) # <<>> THEN SplitWs(Strip(stdout))[1] ELSE <<>>

\* The label an answer selects: the for loop with its break, default labels[0].
LabelMatches(label, response_lower) ==
    LET label_lower == Lower(label)
    IN  \/ Contains(response_lower, label_lower)
        \/ Contains(label_lower, response_lower)

\* The loop without its break: the last matching label wins.
BestLabelNoBreak(labels, response) ==
    LET response_lower == Lower(response)
        hits == {i \in DOMAIN labels : LabelMatches(labels[i], response_lower)}
    IN  IF hits = {} THEN labels[1] ELSE labels[MaxOf(hits)]

BestLabel(labels, response) ==
    LET response_lower == Lower(response)
        hits == {i \in DOMAIN labels : LabelMatches(labels[i], response_lower)}
    IN  IF hits = {} THEN labels[1] ELSE labels[MinOf(hits)]

\* The dict query_ollama returns for the answer token `response`
MatchLabel(labels, response) ==
    [label |-> BestLabel(labels, response), raw_response |-> response]

\* query_ollama(text, labels, custom_prompt), run being what the subprocess
\* call does. The prompt it renders only reaches the external process, whose
\* answer is an input here whatever the prompt.
QueryOllama(text, labels, custom_prompt, run) ==
    IF run.kind # "completed"
    THEN [label |-> ERROR_LABEL, raw_response |-> run.message]
    ELSE IF labels = <<>>
    THEN [label |-> ERROR_LABEL, raw_response |-> INDEX_ERROR]
    ELSE MatchLabel(labels, FirstToken(run.stdout))

----------------------------------------------------------------------------
(* LAZY MODEL CACHE *)

\* get_model without the `if key not in loaded_models` test: a pipeline is
\* constructed at every call.
GetModelUncached(model_info, cache, loads, load_ok) ==
    LET key == model_info.name
        count == IF key \in DOMAIN loads THEN loads[key] ELSE 0
    IN  IF ~load_ok
        THEN [raised |-> "OSError", cache |-> cache, loads |-> loads, hit |-> FALSE]
        ELSE [raised |-> "",
              cache |-> [k \in DOMAIN cache \cup {key} |->
                            IF k = key
                            THEN [type |-> model_info.type, path |-> model_info.path]
                            ELSE cache[k]],
              loads |-> [k \in DOMAIN loads \cup {key} |->
                            IF k = key THEN count + 1 ELSE loads[k]],
              hit |-> key \in DOMAIN cache]

\* pipeline(type, model=path) constructs a handle, or raises when load_ok is false.
\* get_model(model_info): [raised, cache, loads, hit].
GetModel(model_info, cache, loads, load_ok) ==
    LET key == model_info.name
        count == IF key \in DOMAIN loads THEN loads[key] ELSE 0
    IN  IF key \in DOMAIN cache
        THEN [raised |-> "", cache |-> cache, loads |-> loads, hit |-> TRUE]
        ELSE IF ~load_ok
        THEN [raised |-> "OSError", cache |-> cache, loads |-> loads, hit |-> FALSE]
        ELSE [raised |-> "",
              cache |-> [k \in DOMAIN cache \cup {key} |->
                            IF k = key
                            THEN [type |-> model_info.type, path |-> model_info.path]
                            ELSE cache[k]],
              loads |-> [k \in DOMAIN loads \cup {key} |->
                            IF k = key THEN count + 1 ELSE loads[k]],
              hit |-> FALSE]

----------------------------------------------------------------------------
(* THE CLASSIFICATION ENGINES (third party): what the k-th call of a handler *)
(* returns. Scores are in units of 1/10000.                                  *)

ONE == 10000

\* round(x, 3): x in 1/10000, the result in 1/1000, ties to even
Round3(x) ==
    LET q == x \div 10
        r == x % 10
    IN  IF r < 5 THEN q
        ELSE IF r > 5 THEN q + 1
        ELSE IF q % 2 = 0 THEN q ELSE q + 1

\* The zero-shot pipeline: the candidate labels ranked by score, highest first.
ZeroShotResult(k, labels) ==
    LET n == Len(labels)
        total == (n * (n + 1)) \div 2
        base(r) == (ONE * (n - r + 1)) \div total
    IN  [labels |-> List([r \in 1..n |-> labels[((k + r - 2) % n) + 1]]),
         scores |-> List([r \in 1..n |->
                        IF n = 1 THEN ONE
                        ELSE IF r = 1 THEN base(1) + ((k * 7) % 10)
                        ELSE IF r = n THEN base(n) - ((k * 7) % 10)
                        ELSE base(r)])]

\* The text-classification pipeline: its own labels, the top one only.
INTENT_LABELS == <<Str("purchase"), Str("information"), Str("support")>>

TextClassificationResult(k) ==
    << [label |-> INTENT_LABELS[(k % Len(INTENT_LABELS)) + 1],
        score |-> 9000 + ((k * 37) % 1000)] >>

\* The environment of one handler call, env: [load_ok, fail_at, fail_kind,
\* write_ok]. load_ok: pipeline(...) constructs the model; write_ok: the CSV
\* can be written; the fail_at-th engine call fails the way fail_kind names:
\* "raise" (a Hugging Face pipeline call raises), "timeout", "nonzero",
\* "oserror" (the ollama run).
\* What the k-th ollama run of a handler call does, under env.
OLLAMA_ANSWERS ==
    << Str("Commercial\n"), Str("  informational intent\n"), Str("Trans"),
       Str(""), Str("Unsure about this one") >>

RunOf(env, k) ==
    IF env.fail_at = k /\ env.fail_kind = "timeout" THEN TimedOut
    ELSE IF env.fail_at = k /\ env.fail_kind = "nonzero" THEN Completed(1, <<>>)
    ELSE IF env.fail_at = k /\ env.fail_kind = "oserror" THEN RunRaised
    ELSE Completed(0, OLLAMA_ANSWERS[((k - 1) % Len(OLLAMA_ANSWERS)) + 1])

----------------------------------------------------------------------------
(* LABEL PARSING *)

DEFAULT_LABELS ==
    <<Str("Commercial"), Str("Informational"), Str("Navigational"),
      Str("Transactional")>>

\* [l.strip() for l in custom_labels.split(",")] or the four SEO labels
ParseLabels(custom_labels) ==
    IF Strip(custom_labels) # <<>>
    THEN LET parts == SplitOn(custom_labels, ",")
         IN  List([i \in DOMAIN parts |-> Strip(parts[i])])
    ELSE DEFAULT_LABELS

----------------------------------------------------------------------------
(* BATCH INPUT FILES *)

\* A cell of a column, a CSV field or a dict value: a string, a number
\* (rounded score, in 1/1000), pandas' NaN, or an empty CSV field.
StrCell(s) == [t |-> "str", v |-> s]
NumCell(x) == [t |-> "num", v |-> <<x>>]
NaN == [t |-> "nan", v |-> <<>>]
EmptyField == [t |-> "empty", v |-> <<>>]

MAX_CSV_ROWS == 100
MAX_TXT_LINES == 100

Take(s, n) == SubSeq(s, 1, IF Len(s) < n THEN Len(s) ELSE n)

\* str.endswith(suffix)
EndsWith(s, suffix) ==
    /\ Len(s) >= Len(suffix)
    /\ SubSeq(s, Len(s) - Len(suffix) + 1, Len(s)) = suffix

CSV_SUFFIX == Str(".csv")

\* The reads without their [:100] slices: every row and every line is taken.
ReadTextsUncapped(file) ==
    IF EndsWith(file.name, CSV_SUFFIX)
    THEN file.cells
    ELSE List([i \in DOMAIN file.cells |-> StrCell(Strip(file.cells[i].v))])

\* The texts analyze_batch reads from an uploaded file [name, readable, cells]:
\* for a CSV, cells are the first column's values as pandas parsed them; for a
\* text file, they are the lines readlines() returns.
ReadTexts(file) ==
    IF EndsWith(file.name, CSV_SUFFIX)
    THEN Take(file.cells, MAX_CSV_ROWS)
    ELSE LET lines == Take(file.cells, MAX_TXT_LINES)
         IN  List([i \in DOMAIN lines |-> StrCell(Strip(lines[i].v))])

----------------------------------------------------------------------------
(* PER-ITEM CLASSIFICATION AND THE CSV ROWS *)

\* best_label, best_score and all_scores from what each engine returned
OllamaScores(result) ==
    [raised |-> "", best_label |-> result.label, best_score |-> ONE,
     all_scores |-> <<<<result.label, ONE>>>>]

ZeroShotScores(result) ==
    [raised |-> "", best_label |-> result.labels[1], best_score |-> result.scores[1],
     all_scores |-> DictOf(List([i \in DOMAIN result.labels |->
                             <<result.labels[i], result.scores[i]>>]))]

TextClassificationScores(result) ==
    [raised |-> "", best_label |-> result[1].label, best_score |-> result[1].score,
     all_scores |-> DictOf(List([i \in DOMAIN result |->
                             <<result[i].label, result[i].score>>]))]

\* One item's classification, the k-th engine call of the batch:
\* [raised, best_label, best_score, all_scores].
Classify(text, k, model_type, labels, system_prompt, env) ==
    IF model_type = OLLAMA_LLM THEN
        OllamaScores(QueryOllama(text, labels, system_prompt, RunOf(env, k)))
    ELSE IF env.fail_at = k /\ env.fail_kind = "raise" THEN
        [raised |-> "RuntimeError", best_label |-> <<>>, best_score |-> 0,
         all_scores |-> <<>>]
    ELSE IF model_type = ZERO_SHOT THEN
        ZeroShotScores(ZeroShotResult(k, labels))
    ELSE
        TextClassificationScores(TextClassificationResult(k))

COL_KEYWORD == Str("keyword")
COL_BEST_LABEL == Str("best_label")
COL_CONFIDENCE == Str("confidence")
SCORE_PREFIX == Str("score_")

\* csv_row[f"score_{label}"] = round(score, 3), for each pair of all_scores
RECURSIVE AddScores(_, _)
AddScores(csv_row, all_scores) ==
    IF all_scores = <<>> THEN csv_row
    ELSE AddScores(DictSet(csv_row, SCORE_PREFIX \o all_scores[1][1],
                           NumCell(Round3(all_scores[1][2]))),
                   Tail(all_scores))

CsvRow(text, c) ==
    AddScores(<< <<COL_KEYWORD, StrCell(text)>>,
                 <<COL_BEST_LABEL, StrCell(c.best_label)>>,
                 <<COL_CONFIDENCE, NumCell(Round3(c.best_score))>> >>,
              c.all_scores)

\* `if not text.strip(): continue` lets this text through
NonBlank(cell) == Strip(cell.v) # <<>>

\* What the loop leaves, results[k] being the classification of items[k]: the
\* rows appended before the first exception, and that exception (the
\* AttributeError of a text that is no string when the loop got that far).
LoopOutcome(items, results, hits_non_string) ==
    LET failed == {k \in DOMAIN items : results[k].raised # ""}
        done == IF failed # {} THEN MinOf(failed) - 1 ELSE Len(items)
    IN  [raised |-> IF failed # {} THEN results[MinOf(failed)].raised
                    ELSE IF hits_non_string THEN "AttributeError"
                    ELSE "",
         rows |-> List([k \in 1..done |-> CsvRow(items[k].v, results[k])])]

\* The for loop over texts: [raised, rows]. The loop reaches the texts before
\* the first one that is no string (whose .strip() raises AttributeError),
\* skips the blank ones and classifies the others in order, the k-th of them
\* by the k-th engine call; the first exception leaves the loop.
BatchLoop(texts, model_type, labels, system_prompt, env) ==
    LET bad == {i \in DOMAIN texts : texts[i].t # "str"}
        stop == IF bad = {} THEN Len(texts) + 1 ELSE MinOf(bad)
        items == SelectSeq(SubSeq(texts, 1, stop - 1), NonBlank)
    IN  LoopOutcome(items,
                    List([k \in DOMAIN items |->
                            Classify(items[k].v, k, model_type, labels,
                                     system_prompt, env)]),
                    bad # {})

----------------------------------------------------------------------------
(* CSV EXPORT *)

\* int(time.time()), the clock being in milliseconds
Timestamp(t) == t \div 1000

\* The columns of pd.DataFrame(list of dicts): the keys of the dicts, ordered
\* by where each is first seen (row, then position in the row).
Columns(rows) ==
    LET keys == UNION {Keys(rows[i]) : i \in DOMAIN rows}
        width == 1 + MaxOf({0} \cup {Len(rows[i]) : i \in DOMAIN rows})
        seen(key) ==
            LET i == MinOf({r \in DOMAIN rows : key \in Keys(rows[r])})
            IN  i * width + MinOf({j \in DOMAIN rows[i] : rows[i][j][1] = key})
        order == {<<seen(key), key>> : key \in keys}
    IN  List([p \in 1..Cardinality(order) |->
            (CHOOSE at \in order :
                Cardinality({before \in order : before[1] < at[1]}) = p - 1)[2]])

\* A value per row and column, NaN where the row's dict lacks the key.
Frame(rows, columns) ==
    [columns |-> columns,
     data |-> List([i \in DOMAIN rows |->
                 List([j \in DOMAIN columns |->
                    IF columns[j] \in Keys(rows[i])
                    THEN Get(rows[i], columns[j]) ELSE NaN])])]

\* pd.DataFrame(results_csv)
DataFrame(rows) == Frame(rows, Columns(rows))

\* to_csv with na_rep="nan": a missing value is written as text.
ToCsvNaRep(df) ==
    [header |-> df.columns,
     lines |-> List([i \in DOMAIN df.data |->
                  List([j \in DOMAIN df.columns |->
                     IF df.data[i][j].t = "nan" THEN StrCell(<<"n", "a", "n">>)
                     ELSE df.data[i][j]])])]

\* df.to_csv(path, index=False): the header line and one line per row, a NaN
\* written as an empty field.
ToCsv(df) ==
    [header |-> df.columns,
     lines |-> List([i \in DOMAIN df.data |->
                  List([j \in DOMAIN df.columns |->
                     IF df.data[i][j].t = "nan" THEN EmptyField
                     ELSE df.data[i][j]])])]

----------------------------------------------------------------------------
(* THE HANDLERS *)

NO_CSV == -1

NoCall ==
    [op |-> "none", args |-> <<>>, raised |-> "", status |-> "", error |-> "",
     result |-> <<>>, rows |-> <<>>, csv_path |-> NO_CSV, hit |-> FALSE]

\* What analyze_text returns or raises, and the cache it leaves.
\* status: "warning" (empty text), "not_found", "error" (the handler's own
\* except branch) or "ok"; raised: the exception that leaves the handler.
TextOut(raised, status, error, result, cache, loads, hit) ==
    [raised |-> raised, status |-> status, error |-> error, result |-> result,
     cache |-> cache, loads |-> loads, hit |-> hit]

\* The local-model branch of the try block, got being what get_model did and
\* c what the pipeline call did.
AnalyzeTextLocal(got, c, cache, loads) ==
    IF got.raised # "" THEN TextOut("", "error", got.raised, <<>>, cache, loads, FALSE)
    ELSE IF c.raised # "" THEN
        TextOut("", "error", c.raised, <<>>, got.cache, got.loads, got.hit)
    ELSE TextOut("", "ok", "", <<c>>, got.cache, got.loads, got.hit)

\* The try block of analyze_text
AnalyzeTextInference(text, model_info, labels, system_prompt, env, cache, loads) ==
    IF model_info.type = OLLAMA_LLM THEN
        TextOut("", "ok", "", <<QueryOllama(text, labels, system_prompt, RunOf(env, 1))>>,
                cache, loads, FALSE)
    ELSE AnalyzeTextLocal(GetModel(model_info, cache, loads, env.load_ok),
                          Classify(text, 1, model_info.type, labels, system_prompt, env),
                          cache, loads)

\* analyze_text from the model lookup on, reg being what get_available_models did
AnalyzeTextLookup(text, model_name, labels, system_prompt, env, reg, cache, loads) ==
    IF reg.raised # "" THEN TextOut(reg.raised, "", "", <<>>, cache, loads, FALSE)
    ELSE IF ~HasModel(reg.models, model_name) THEN
        TextOut("", "not_found", "", <<>>, cache, loads, FALSE)
    ELSE AnalyzeTextInference(text, FindModel(reg.models, model_name), labels,
                              system_prompt, env, cache, loads)

\* analyze_text(text, model_name, custom_labels, system_prompt)
AnalyzeTextCall(text, model_name, custom_labels, system_prompt, env, dir, cache, loads) ==
    IF Strip(text) = <<>> THEN TextOut("", "warning", "", <<>>, cache, loads, FALSE)
    ELSE AnalyzeTextLookup(text, model_name, ParseLabels(custom_labels), system_prompt,
                           env, GetAvailableModels(dir), cache, loads)

\* What analyze_batch returns (it catches every exception), the cache it
\* leaves and the path of the CSV it writes.
BatchOut(status, error, rows, csv_path, cache, loads, hit) ==
    [status |-> status, error |-> error, rows |-> rows, csv_path |-> csv_path,
     cache |-> cache, loads |-> loads, hit |-> hit]

\* The end of analyze_batch, got being what get_model did and loop what the
\* loop over the texts did.
AnalyzeBatchExport(got, loop, env, clock, cache, loads) ==
    IF got.raised # "" THEN
        BatchOut("error", got.raised, <<>>, NO_CSV, cache, loads, FALSE)
    ELSE IF loop.raised # "" THEN
        BatchOut("error", loop.raised, <<>>, NO_CSV, got.cache, got.loads, got.hit)
    ELSE IF ~env.write_ok THEN
        BatchOut("error", "OSError", <<>>, NO_CSV, got.cache, got.loads, got.hit)
    ELSE BatchOut("ok", "", loop.rows, Timestamp(clock), got.cache, got.loads, got.hit)

\* analyze_batch from the model load on
AnalyzeBatchInference(file, model_info, labels, system_prompt, env, cache, loads, clock) ==
    AnalyzeBatchExport(
        IF model_info.type # OLLAMA_LLM
        THEN GetModel(model_info, cache, loads, env.load_ok)
        ELSE [raised |-> "", cache |-> cache, loads |-> loads, hit |-> FALSE],
        BatchLoop(ReadTexts(file), model_info.type, labels, system_prompt, env),
        env, clock, cache, loads)

\* analyze_batch from the model lookup on, reg being what get_available_models did
AnalyzeBatchLookup(file, model_name, labels, system_prompt, env, reg, cache, loads, clock) ==
    IF reg.raised # "" THEN BatchOut("error", reg.raised, <<>>, NO_CSV, cache, loads, FALSE)
    ELSE IF ~HasModel(reg.models, model_name) THEN
        BatchOut("not_found", "", <<>>, NO_CSV, cache, loads, FALSE)
    ELSE AnalyzeBatchInference(file, FindModel(reg.models, model_name), labels,
                               system_prompt, env, cache, loads, clock)

\* analyze_batch(file, model_name, custom_labels, system_prompt); file is
\* [is_none, name, readable, cells].
AnalyzeBatchCall(file, model_name, custom_labels, system_prompt, env, dir, cache, loads, clock) ==
    IF file.is_none THEN BatchOut("warning", "", <<>>, NO_CSV, cache, loads, FALSE)
    ELSE IF ~file.readable THEN
        BatchOut("error", "OSError", <<>>, NO_CSV, cache, loads, FALSE)
    ELSE AnalyzeBatchLookup(file, model_name, ParseLabels(custom_labels), system_prompt,
                            env, GetAvailableModels(dir), cache, loads, clock)

\* The file results_df.to_csv(csv_path) leaves at csv_path.
WriteCsv(files, csv_path, rows) ==
    [p \in DOMAIN files \cup {csv_path} |->
        IF p = csv_path THEN ToCsv(DataFrame(rows)) ELSE files[p]]

----------------------------------------------------------------------------
(* ACTIONS *)

\* The state after get_available_models did reg
DashboardReturns(reg) ==
    /\ ret' = [NoCall EXCEPT !.op = "get_available_models",
                             !.raised = reg.raised,
                             !.status = IF reg.raised = "" THEN "ok" ELSE "",
                             !.result = reg.models]
    /\ UNCHANGED <<models_dir, loaded_models, pipeline_loads, now, data_files>>

\* create_dashboard(): one call of get_available_models()
CreateDashboard == DashboardReturns(GetAvailableModels(models_dir))

\* One direct call of query_ollama(text, labels, custom_prompt)
QueryOllamaCall(text, labels, custom_prompt, run) ==
    /\ ret' = [NoCall EXCEPT !.op = "query_ollama",
                             !.args = [text |-> text, labels |-> labels,
                                       custom_prompt |-> custom_prompt, run |-> run],
                             !.status = "ok",
                             !.result = <<QueryOllama(text, labels, custom_prompt, run)>>]
    /\ UNCHANGED <<models_dir, loaded_models, pipeline_loads, now, data_files>>

\* The state after analyze_text(args) did r
AnalyzeTextReturns(args, r) ==
    /\ ret' = [NoCall EXCEPT !.op = "analyze_text", !.args = args,
                             !.raised = r.raised, !.status = r.status,
                             !.error = r.error, !.result = r.result, !.hit = r.hit]
    /\ loaded_models' = r.cache
    /\ pipeline_loads' = r.loads
    /\ UNCHANGED <<models_dir, now, data_files>>

\* The "Analyze" button
AnalyzeText(text, model_name, custom_labels, system_prompt, env) ==
    AnalyzeTextReturns(
        [text |-> text, model_name |-> model_name, custom_labels |-> custom_labels,
         system_prompt |-> system_prompt, env |-> env],
        AnalyzeTextCall(text, model_name, custom_labels, system_prompt, env,
                        models_dir, loaded_models, pipeline_loads))

\* The state after analyze_batch(args) did r
AnalyzeBatchReturns(args, r) ==
    /\ ret' = [NoCall EXCEPT !.op = "analyze_batch", !.args = args,
                             !.status = r.status, !.error = r.error,
                             !.rows = r.rows, !.csv_path = r.csv_path, !.hit = r.hit]
    /\ loaded_models' = r.cache
    /\ pipeline_loads' = r.loads
    /\ data_files' = IF r.status = "ok"
                     THEN WriteCsv(data_files, r.csv_path, r.rows)
                     ELSE data_files
    /\ UNCHANGED <<models_dir, now>>

\* The "Analyze Batch & Export CSV" button
AnalyzeBatch(file, model_name, custom_labels, system_prompt, env) ==
    AnalyzeBatchReturns(
        [file |-> file, model_name |-> model_name, custom_labels |-> custom_labels,
         system_prompt |-> system_prompt, env |-> env],
        AnalyzeBatchCall(file, model_name, custom_labels, system_prompt, env,
                         models_dir, loaded_models, pipeline_loads, now))

\* The clock advances by d milliseconds.
Tick(d) ==
    /\ now' = now + d
    /\ UNCHANGED <<models_dir, loaded_models, pipeline_loads, data_files, ret>>

\* Someone adds, removes or edits model folders.
ModelsDirChanges(dir) ==
    /\ dir # models_dir
    /\ models_dir' = dir
    /\ UNCHANGED <<loaded_models, pipeline_loads, now, data_files, ret>>

\* A request drawn at the start and not served yet.
Pending(op, args) == [NoCall EXCEPT !.op = op, !.status = "pending", !.args = args]

ServeQueryOllama ==
    /\ ret.op = "query_ollama" /\ ret.status = "pending"
    /\ QueryOllamaCall(ret.args.text, ret.args.labels, ret.args.custom_prompt,
                       ret.args.run)

ServeAnalyzeBatch ==
    /\ ret.op = "analyze_batch" /\ ret.status = "pending"
    /\ AnalyzeBatch(ret.args.file, ret.args.model_name, ret.args.custom_labels,
                    ret.args.system_prompt, ret.args.env)

----------------------------------------------------------------------------
(* INPUT FAMILIES *)

MaxFolders == 2
MaxStdout == 3
MaxLabels == 2
MaxTime == 2

SeqsUpTo(S, n) == UNION {[1..k -> S] : k \in 0..n}

JsonObject(name_or_path) ==
    [state |-> "object", has_key |-> TRUE, is_str |-> TRUE,
     name_or_path |-> name_or_path]
NoConfig == [state |-> "absent", has_key |-> FALSE, is_str |-> FALSE, name_or_path |-> <<>>]
Folder(name, config) == [folder |-> name, is_dir |-> TRUE, config |-> config]

IntentFolder == Folder(Str("intent_agent"), JsonObject(Str("Falconsai/intent_classification")))
LogicFolder == Folder(Str("logic_agent"), JsonObject(Str("facebook/bart-large-mnli")))

FolderKinds ==
    { IntentFolder, LogicFolder,
      Folder(Str("My-DeBERTa-v3"), [NoConfig EXCEPT !.state = "object"]),
      Folder(Str("xsmall"), JsonObject(Str("cross-encoder/NLI-xsmall"))),
      Folder(Str("sentiment"), JsonObject(Str("distilbert-sst2"))),
      Folder(Str("downloads"), NoConfig),
      [folder |-> Str("README.md"), is_dir |-> FALSE, config |-> NoConfig],
      Folder(Str("half_copied"), [NoConfig EXCEPT !.state = "malformed"]),
      Folder(Str("locked"), [NoConfig EXCEPT !.state = "unreadable"]),
      Folder(Str("listing"), [NoConfig EXCEPT !.state = "array"]),
      Folder(Str("exported"),
             [NoConfig EXCEPT !.state = "object", !.has_key = TRUE]) }

Dir(entries) == [exists |-> TRUE, is_dir |-> TRUE, entries |-> entries]
MissingDir == [exists |-> FALSE, is_dir |-> FALSE, entries |-> <<>>]
FileAtDir == [exists |-> TRUE, is_dir |-> FALSE, entries |-> <<>>]
StandardDir == Dir(<<IntentFolder, LogicFolder>>)

\* Every listing of at most MaxFolders distinct folders, in any order
Listings ==
    {l \in SeqsUpTo(FolderKinds, MaxFolders) :
        \A i, j \in DOMAIN l : i # j => l[i].folder # l[j].folder}

RegistryDirs == {MissingDir, FileAtDir} \cup {Dir(l) : l \in Listings}

EnvOk == [load_ok |-> TRUE, fail_at |-> 0, fail_kind |-> "none", write_ok |-> TRUE]

----------------------------------------------------------------------------
(* THE REGISTRY, over every small models directory *)

RegistryNames ==
    {QWEN_NAME, INTENT_HF_NAME, LOGIC_HF_NAME, Str("intent_agent"), Str("xsmall")}

InitRegistry ==
    /\ models_dir \in RegistryDirs
    /\ loaded_models = <<>>
    /\ pipeline_loads = <<>>
    /\ now = 0
    /\ data_files = <<>>
    /\ ret = NoCall

NextRegistry ==
    \/ CreateDashboard
    \/ \E name \in RegistryNames :
           AnalyzeText(Str("buy yarn"), name, Str(""), Str(""), EnvOk)

SpecRegistry == InitRegistry /\ [][NextRegistry]_vars

\* The scan found no local model: no directory, or no subfolder with a config.json
NoLocalEntries(dir) ==
    \/ ~dir.exists
    \/ /\ dir.is_dir
       /\ \A i \in DOMAIN dir.entries :
              ~dir.entries[i].is_dir \/ dir.entries[i].config.state = "absent"

\* C5: when the scan of the models directory yields zero local entries,
\* get_available_models returns the two hardcoded remote descriptors.
C5_FallbackWhenNoLocalModels ==
    (ret.op = "get_available_models" /\ ret.raised = "" /\ NoLocalEntries(models_dir))
        => \A i \in DOMAIN FallbackModels :
               \E j \in DOMAIN ret.result : ret.result[j] = FallbackModels[i]

\* C9: get_available_models, and the analyze_text call that performs it, never
\* raise, whatever the models directory holds (missing, or a directory with
\* unreadable or malformed config.json files).
C9_RegistryNeverRaises ==
    (ret.op \in {"get_available_models", "analyze_text"}
        /\ (~models_dir.exists \/ models_dir.is_dir))
        => ret.raised = ""

----------------------------------------------------------------------------
(* query_ollama, over every short answer and every short label list *)

OllamaAlphabet == {"A", "a", "b", " "}
LabelPool == {Str("A"), Str("ab"), Str("Ba"), Str("b"), Str("")}

OllamaStdouts ==
    SeqsUpTo(OllamaAlphabet, MaxStdout) \cup {OLLAMA_ANSWERS[i] : i \in DOMAIN OLLAMA_ANSWERS}

OllamaLabelLists ==
    (SeqsUpTo(LabelPool, MaxLabels) \ {<<>>}) \cup {DEFAULT_LABELS}

OllamaRuns ==
    {Completed(0, s) : s \in OllamaStdouts}
        \cup {Completed(1, <<>>), Completed(1, Str("b A")), TimedOut, RunRaised}

OllamaRequests ==
    {[text |-> Str("buy yarn"), labels |-> l, custom_prompt |-> Str(""), run |-> r] :
        l \in OllamaLabelLists, r \in OllamaRuns}

InitOllama ==
    /\ models_dir = StandardDir
    /\ loaded_models = <<>>
    /\ pipeline_loads = <<>>
    /\ now = 0
    /\ data_files = <<>>
    /\ ret \in {Pending("query_ollama", a) : a \in OllamaRequests}

NextOllama == ServeQueryOllama

SpecOllama == InitOllama /\ [][NextOllama]_vars

\* The subprocess call failed: it timed out, raised, or exited non-zero.
InvocationFailed(run) == run.kind # "completed" \/ run.returncode # 0

\* C4: for every kind of invocation failure (timeout, non-zero exit status,
\* exception) query_ollama returns the label "Error".
C4_FailureYieldsErrorLabel ==
    (ret.op = "query_ollama" /\ ret.status = "ok" /\ InvocationFailed(ret.args.run)
        /\ ret.args.labels = DEFAULT_LABELS)
        => ret.result[1].label = ERROR_LABEL

\* t is the first whitespace-delimited token of s ("" when s has none)
IsFirstTokenOf(t, s) ==
    \/ t = <<>> /\ \A i \in DOMAIN s : IsSpace(s[i])
    \/ \E b \in DOMAIN s :
          /\ \A i \in 1..(b - 1) : IsSpace(s[i])
          /\ Len(t) >= 1 /\ b + Len(t) - 1 <= Len(s)
          /\ \A i \in 1..Len(t) : s[b + i - 1] = t[i] /\ ~IsSpace(t[i])
          /\ (b + Len(t) <= Len(s) => IsSpace(s[b + Len(t)]))

\* a occurs in b as a contiguous run of characters
OccursIn(a, b) ==
    \E off \in 0..(Len(b) - Len(a)) : \A i \in 1..Len(a) : b[off + i] = a[i]

\* label and token match: one's lowercase form occurs in the other's
Matching(label, token) ==
    OccursIn(Lower(label), Lower(token)) \/ OccursIn(Lower(token), Lower(label))

\* C10: when the invocation succeeds, query_ollama looks at the first
\* whitespace-delimited token of the answer only and returns the first candidate
\* label, in candidate order, that matches it (either one's lowercase form a
\* substring of the other's), the first candidate when none matches: always a
\* candidate label.
C10_FirstMatchingLabel ==
    (ret.op = "query_ollama" /\ ret.status = "ok" /\ ~InvocationFailed(ret.args.run))
        => LET labels == ret.args.labels
               answer == ret.result[1]
           IN  /\ IsFirstTokenOf(answer.raw_response, ret.args.run.stdout)
               /\ \E i \in DOMAIN labels :
                     /\ answer.label = labels[i]
                     /\ \A j \in 1..(i - 1) : ~Matching(labels[j], answer.raw_response)
                     /\ \/ Matching(labels[i], answer.raw_response)
                        \/ i = 1 /\ \A j \in DOMAIN labels :
                                        ~Matching(labels[j], answer.raw_response)

\* A successful answer of two tokens whose first token matches the second
\* candidate and not the first, while two candidates match it.
C10_Witness ==
    /\ ret.op = "query_ollama" /\ ret.status = "ok"
    /\ ~InvocationFailed(ret.args.run)
    /\ Len(SplitWs(ret.args.run.stdout)) >= 2
    /\ Len(ret.args.labels) >= 2
    /\ ret.args.labels[2] # <<>>
    /\ ret.result[1].label = ret.args.labels[2]
    /\ ret.result[1].label # ret.args.labels[1]
    /\ ~Matching(ret.args.labels[1], ret.result[1].raw_response)

----------------------------------------------------------------------------
(* analyze_batch, over uploaded files shorter and longer than the cap *)

DIGITS == Str("0123456789")

RECURSIVE Digits(_)
Digits(n) ==
    IF n < 10 THEN <<DIGITS[n + 1]>>
    ELSE Digits(n \div 10) \o <<DIGITS[(n % 10) + 1]>>

\* The i-th keyword of a generated file: all distinct
Keyword(i) == Str("kw") \o Digits(i)

\* A text file of n lines, blank at the positions in blanks; some lines carry
\* surrounding whitespace, all end with a newline.
TxtFile(n, blanks) ==
    [is_none |-> FALSE, name |-> Str("keywords.txt"), readable |-> TRUE,
     cells |-> List([i \in 1..n |->
                  StrCell(IF i \in blanks
                          THEN (IF i % 2 = 0 THEN Str("\n") ELSE Str("  \n"))
                          ELSE (IF i % 3 = 0 THEN Str(" ") ELSE <<>>)
                                   \o Keyword(i) \o Str("\n"))])]

\* A CSV file of n data rows: its first column, whitespace-only at the positions
\* in blanks, missing (NaN) at the positions in nans.
CsvFile(n, blanks, nans) ==
    [is_none |-> FALSE, name |-> Str("keywords.csv"), readable |-> TRUE,
     cells |-> List([i \in 1..n |->
                  IF i \in nans THEN NaN
                  ELSE IF i \in blanks THEN StrCell(Str("  "))
                  ELSE StrCell(Keyword(i))])]

NoFile == [is_none |-> TRUE, name |-> <<>>, readable |-> FALSE, cells |-> <<>>]

SmallBatchFiles ==
    { TxtFile(0, {}), TxtFile(1, {}), TxtFile(3, {2}),
      CsvFile(3, {2}, {}), CsvFile(3, {}, {2}),
      [TxtFile(3, {}) EXCEPT !.readable = FALSE], NoFile }

LargeBatchFiles ==
    { TxtFile(100, {}), TxtFile(101, {7}), TxtFile(105, 1..5), TxtFile(250, {}),
      TxtFile(104, {1, 50, 100, 102}),
      CsvFile(105, 1..5, {}), CsvFile(250, {}, {}) }

BatchModelNames ==
    {Str("intent_agent"), Str("logic_agent"), QWEN_NAME, LOGIC_HF_NAME}

BatchLabelInputs == {Str(""), Str("buy, learn ,go")}

BatchEnvs ==
    {EnvOk, [EnvOk EXCEPT !.load_ok = FALSE], [EnvOk EXCEPT !.write_ok = FALSE]}
        \cup {[EnvOk EXCEPT !.fail_at = k, !.fail_kind = kind] :
                 k \in {1, 2}, kind \in {"raise", "timeout", "nonzero", "oserror"}}

BatchDirs == {StandardDir, MissingDir}

BatchRequest(f, m, l, e) ==
    [file |-> f, model_name |-> m, custom_labels |-> l, system_prompt |-> Str(""),
     env |-> e]

\* The short files with every model, label input and environment; the long
\* files with the two local models, and the longest with the Ollama model.
BatchRequests ==
    {BatchRequest(f, m, l, e) :
        f \in SmallBatchFiles, m \in BatchModelNames, l \in BatchLabelInputs,
        e \in BatchEnvs}
    \cup {BatchRequest(f, m, Str(""), EnvOk) :
            f \in LargeBatchFiles, m \in {Str("intent_agent"), Str("logic_agent")}}
    \cup {BatchRequest(TxtFile(250, {}), QWEN_NAME, Str(""), EnvOk)}

InitBatch ==
    /\ models_dir \in BatchDirs
    /\ loaded_models = <<>>
    /\ pipeline_loads = <<>>
    /\ now = 0
    /\ data_files = <<>>
    /\ ret \in {Pending("analyze_batch", a) : a \in BatchRequests}

NextBatch == ServeAnalyzeBatch

SpecBatch == InitBatch /\ [][NextBatch]_vars

\* The keywords of the returned records, in order
RowKeyword(row) == Get(row, COL_KEYWORD).v
Keywords(rows) == List([k \in DOMAIN rows |-> RowKeyword(rows[k])])
RowLabel(row) == Get(row, COL_BEST_LABEL).v

\* The items of the uploaded file, in input order: the lines of a text file
\* without their surrounding whitespace, the first-column values of a CSV
\* (an item that is no string counts as blank).
InputItems(file) ==
    List([i \in DOMAIN file.cells |->
            IF file.cells[i].t # "str" THEN <<>>
            ELSE IF EndsWith(file.name, CSV_SUFFIX) THEN file.cells[i].v
            ELSE Strip(file.cells[i].v)])

IsNonBlankItem(item) == Strip(item) # <<>>

\* C1: analyze_batch produces at most 100 records, in the relative order of
\* their items in the input (the items of the generated files are distinct, so
\* the input filtered to the recorded keywords is the record sequence); 250
\* non-blank lines give exactly 100 records, the first 100 lines in order.
C1_AtMost100InInputOrder ==
    (ret.op = "analyze_batch" /\ ret.status # "pending")
        => LET items == InputItems(ret.args.file)
               recorded == {RowKeyword(ret.rows[k]) : k \in DOMAIN ret.rows}
               IsRecorded(item) == item \in recorded
           IN  /\ Len(ret.rows) <= 100
               /\ SelectSeq(items, IsRecorded) = Keywords(ret.rows)
               /\ (ret.status = "ok" /\ Len(items) = 250
                      /\ \A i \in DOMAIN items : IsNonBlankItem(items[i]))
                     => Keywords(ret.rows) = SubSeq(items, 1, 100)

\* A completed batch over 250 non-blank lines, with its 100 records.
C1_Witness ==
    /\ ret.op = "analyze_batch" /\ ret.status = "ok"
    /\ Len(ret.args.file.cells) = 250
    /\ Len(ret.rows) = 100
    /\ RowKeyword(ret.rows[100]) = Keyword(100)

\* C2: blank lines do not consume the cap: the records of a completed batch
\* are exactly the first 100 non-blank items of the input.
C2_First100NonBlankItems ==
    (ret.op = "analyze_batch" /\ ret.status = "ok")
        => Keywords(ret.rows)
             = Take(SelectSeq(InputItems(ret.args.file), IsNonBlankItem), 100)

\* The engine call of a local (Hugging Face) model raised at the k-th retained
\* item of a batch in which nothing else fails.
BackendRaisedAt(k) ==
    LET reg == GetAvailableModels(models_dir)
        a == ret.args
        texts == ReadTexts(a.file)
    IN  /\ ret.op = "analyze_batch" /\ ret.status # "pending"
        /\ ~a.file.is_none /\ a.file.readable
        /\ \A i \in DOMAIN texts : texts[i].t = "str"
        /\ reg.raised = "" /\ HasModel(reg.models, a.model_name)
        /\ FindModel(reg.models, a.model_name).type # OLLAMA_LLM
        /\ a.env.load_ok /\ a.env.write_ok
        /\ a.env.fail_at = k /\ a.env.fail_kind = "raise"
        /\ k \in 1..Len(SelectSeq(texts, NonBlank))

\* C3: when the classification call for one retained item raises, the batch is
\* not aborted: it returns a record for every retained item, the failed item's
\* record labeled "Error" at its input position.
C3_ItemFailureDoesNotAbort ==
    \A k \in 1..2 :
        BackendRaisedAt(k)
            => /\ ret.status = "ok"
               /\ Len(ret.rows) = Len(SelectSeq(ReadTexts(ret.args.file), NonBlank))
               /\ RowLabel(ret.rows[k]) = ERROR_LABEL

\* The score_<label> keys of a record
IsScoreKey(key) ==
    Len(key) > Len(SCORE_PREFIX) /\ SubSeq(key, 1, Len(SCORE_PREFIX)) = SCORE_PREFIX
ScoreKeys(row) == {key \in Keys(row) : IsScoreKey(key)}

\* C8: the exported CSV has one line per returned record; its score_<label>
\* columns are the union of the records' score keys; a line's field holds the
\* record's score where the record has that key and is empty where it has not.
C8_CsvMatchesRecords ==
    (ret.op = "analyze_batch" /\ ret.status = "ok")
        => LET csv == data_files[ret.csv_path]
               header == csv.header
           IN  /\ Len(csv.lines) = Len(ret.rows)
               /\ {header[j] : j \in {c \in DOMAIN header : IsScoreKey(header[c])}}
                    = UNION {ScoreKeys(ret.rows[i]) : i \in DOMAIN ret.rows}
               /\ \A j1, j2 \in DOMAIN header : header[j1] = header[j2] => j1 = j2
               /\ \A i \in DOMAIN ret.rows :
                     /\ Len(csv.lines[i]) = Len(header)
                     /\ \A j \in DOMAIN header :
                           IF header[j] \in Keys(ret.rows[i])
                           THEN csv.lines[i][j] = Get(ret.rows[i], header[j])
                           ELSE csv.lines[i][j].t = "empty"

\* An export of several records whose score keys differ, so that a line has an
\* empty field under another record's label.
C8_Witness ==
    /\ ret.op = "analyze_batch" /\ ret.status = "ok"
    /\ Len(ret.rows) >= 2
    /\ ScoreKeys(ret.rows[1]) # ScoreKeys(ret.rows[2])
    /\ \E j \in DOMAIN data_files[ret.csv_path].header :
          data_files[ret.csv_path].lines[1][j].t = "empty"

----------------------------------------------------------------------------
(* A session of the dashboard: any sequence of button presses, the models    *)
(* directory changing in between, all within one second of the clock         *)

SessionTexts == {Str("buy yarn"), Str("  ")}
SessionFiles == {TxtFile(3, {2})}
SessionModelNames == {Str("intent_agent"), Str("logic_agent"), QWEN_NAME}
SessionEnvs == {EnvOk, [EnvOk EXCEPT !.load_ok = FALSE]}
SessionDirs ==
    {StandardDir,
     Dir(<<Folder(Str("intent_agent"), JsonObject(Str("facebook/bart-large-mnli")))>>)}

Init ==
    /\ models_dir = StandardDir
    /\ loaded_models = <<>>
    /\ pipeline_loads = <<>>
    /\ now = 0
    /\ data_files = <<>>
    /\ ret = NoCall

Next ==
    \/ \E dir \in SessionDirs : ModelsDirChanges(dir)
    \/ CreateDashboard
    \/ \E text \in SessionTexts, name \in SessionModelNames, env \in SessionEnvs :
           AnalyzeText(text, name, Str(""), Str(""), env)
    \/ \E file \in SessionFiles, name \in SessionModelNames, env \in SessionEnvs :
           AnalyzeBatch(file, name, Str(""), Str(""), env)

Spec == Init /\ [][Next]_vars

\* C7: over any sequence of analyze_text and analyze_batch calls the model of
\* a descriptor name is loaded at most once, and once it is cached no call
\* loads it again or replaces the cached instance (a batch included, whatever
\* its number of items).
C7_LoadedAtMostOnce ==
    /\ [](\A name \in DOMAIN pipeline_loads : pipeline_loads[name] <= 1)
    /\ [][\A name \in DOMAIN loaded_models :
              /\ name \in DOMAIN loaded_models'
              /\ loaded_models'[name] = loaded_models[name]
              /\ pipeline_loads'[name] = pipeline_loads[name]]_vars

\* A batch of two items served from the cache: its model was loaded by an
\* earlier call, once.
C7_Witness ==
    /\ ret.op = "analyze_batch" /\ ret.status = "ok"
    /\ ret.hit
    /\ Len(ret.rows) = 2
    /\ pipeline_loads[ret.args.model_name] = 1

----------------------------------------------------------------------------
(* Exports as the clock advances *)

ExportFiles == {TxtFile(1, {}), TxtFile(3, {2})}

NextExport ==
    \/ \E d \in {500, 1000} : now + d <= MaxTime * 1000 /\ Tick(d)
    \/ \E file \in ExportFiles, name \in {QWEN_NAME, Str("logic_agent")} :
           AnalyzeBatch(file, name, Str(""), Str(""), EnvOk)

SpecExport == Init /\ [][NextExport]_vars

\* C6: every export writes to a filename no earlier export used, so no export
\* overwrites a prior export: a file once written stays as it was written.
C6_ExportNeverOverwrites ==
    [][\A path \in DOMAIN data_files :
          /\ path \in DOMAIN data_files'
          /\ data_files'[path] = data_files[path]]_vars

====
